---------------------------- MODULE Spec2Model ----------------------------
(***************************************************************************)
(* Model of the elevator-technician chat assistant (src/pages/app.py,      *)
(* src/home.py, src/main.py).                                              *)
(*                                                                         *)
(* Text is modelled as a sequence of one-character strings, so that        *)
(* slicing, lower-casing, tokenising and substring counting are computed   *)
(* the way the Python code computes them.                                  *)
(***************************************************************************)
EXTENDS Integers, Sequences, FiniteSets, TLC

VARIABLES
    \* ---- chunker loop (dividir_em_blocos_paginas) ----
    c_paginas, c_tamanho, c_overlap, c_p, c_i, c_blocos, c_pc,
    \* ---- retriever (buscar_blocos_relevantes) ----
    b_pergunta, b_blocos, b_top_k, b_resultado, b_pc,
    \* ---- conversation loading (carregar_conversas) ----
    l_rows, l_falha, l_conversas, l_pc,
    \* ---- upload batch (extrair_texto_pdf + chunking) ----
    u_pdfs, u_blocos, u_pc,
    \* ---- session (st.session_state), remote store, turn position ----
    usuario, conversas, conversa_ativa_id, historico, blocos,
    pc, pergunta, selecionados, resposta, chamadas, antes, tela,
    consultas, usos, permitidos, agora, proxId, interacoes

chunkVars  == <<c_paginas, c_tamanho, c_overlap, c_p, c_i, c_blocos, c_pc>>
buscaVars  == <<b_pergunta, b_blocos, b_top_k, b_resultado, b_pc>>
loadVars   == <<l_rows, l_falha, l_conversas, l_pc>>
uploadVars == <<u_pdfs, u_blocos, u_pc>>
sessVars   == <<usuario, conversas, conversa_ativa_id, historico, blocos>>
turnVars   == <<pc, pergunta, selecionados, resposta, chamadas, antes, tela>>
remoteVars == <<consultas, usos, permitidos, agora, proxId>>
sessaoVars == <<sessVars, turnVars, remoteVars, interacoes>>
vars == <<chunkVars, buscaVars, loadVars, uploadVars, sessaoVars>>

(***************************************************************************)
(* Bounds of the model.                                                    *)
(***************************************************************************)
MaxL == 6          \* longest page text in the chunker specification
MaxW == 4          \* largest window size in the chunker specification
MaxPaginasChunk == 2   \* pages per chunker run

(***************************************************************************)
(* Generic helpers.                                                        *)
(***************************************************************************)
Min(a, b) == IF a < b THEN a ELSE b

Max(a, b) == IF a > b THEN a ELSE b

Front(s) == SubSeq(s, 1, Len(s) - 1)

Last(s) == s[Len(s)]

\* Python slice s[i:j] with 0 <= i, 0-based, end exclusive, clipped to len(s).
Slice(s, i, j) == SubSeq(s, i + 1, Min(j, Len(s)))

\* ceil(a / b) for b > 0
CeilDiv(a, b) == (a + b - 1) \div b

\* A page text of length n whose characters identify their position.
TextoDe(n) == [k \in 1..n |-> ToString(k % 10)]

(***************************************************************************)
(* dividir_em_blocos_paginas: the loop body, one window per iteration.     *)
(***************************************************************************)
\* fim = min(i + tamanho, len(texto))
FimDaJanela(i, tamanho, len) == Min(i + tamanho, len)

\* variant: the next window starts past the end of the last one
ProximoInicioSemOverlap(fim, overlap) == fim + 1

\* i = fim - overlap
ProximoInicio(fim, overlap) == fim - overlap

\* the dict appended to blocos for window [i, fim) of page p
BlocoDe(p, i, fim) ==
    [pagina |-> p.pagina, arquivo |-> p.arquivo, texto |-> Slice(p.texto, i, fim)]

\* The windows of one page starting at offset i (the while loop of the code).
RECURSIVE BlocosDaPagina(_, _, _, _)
BlocosDaPagina(p, i, tamanho, overlap) ==
    IF ~(i < Len(p.texto)) THEN <<>>
    ELSE LET fim == FimDaJanela(i, tamanho, Len(p.texto))
         IN  IF fim >= Len(p.texto)
             THEN <<BlocoDe(p, i, fim)>>
             ELSE <<BlocoDe(p, i, fim)>>
                  \o BlocosDaPagina(p, ProximoInicio(fim, overlap), tamanho, overlap)

\* The whole function: pages in order, windows in order within a page.
RECURSIVE dividir_em_blocos_paginas(_, _, _)
dividir_em_blocos_paginas(paginas, tamanho, overlap) ==
    IF paginas = <<>> THEN <<>>
    ELSE BlocosDaPagina(Head(paginas), 0, tamanho, overlap)
         \o dividir_em_blocos_paginas(Tail(paginas), tamanho, overlap)

(***************************************************************************)
(* Text helpers: str.lower(), re.findall(r"\w+", s), str.count(sub).       *)
(***************************************************************************)
\* The characters of the model's texts, in code-point order: the white-space
\* controls (U+0009-U+000D, U+001C-U+001F, U+0085), Basic Latin (the grave
\* accent U+0060 aside, which a string of this language cannot hold), the
\* Latin-1 Supplement and Greek (U+0384-U+03FC).
Alfabeto ==
    <<"\t","\n","","\f","\r","","","",""," ","!","\"","#","$","%","&",
      "'","(",")","*","+",",","-",".","/","0","1","2","3","4","5","6","7","8",
      "9",":",";","<","=",">","?","@","A","B","C","D","E","F","G","H","I","J",
      "K","L","M","N","O","P","Q","R","S","T","U","V","W","X","Y","Z","[",
      "\\","]","^","_","a","b","c","d","e","f","g","h","i","j","k","l","m",
      "n","o","p","q","r","s","t","u","v","w","x","y","z","{","|","}","~","",
      " ","¡","¢","£","¤","¥","¦","§","¨","©","ª","«","¬","­","®","¯","°","±",
      "²","³","´","µ","¶","·","¸","¹","º","»","¼","½","¾","¿","À","Á","Â","Ã",
      "Ä","Å","Æ","Ç","È","É","Ê","Ë","Ì","Í","Î","Ï","Ð","Ñ","Ò","Ó","Ô","Õ",
      "Ö","×","Ø","Ù","Ú","Û","Ü","Ý","Þ","ß","à","á","â","ã","ä","å","æ","ç",
      "è","é","ê","ë","ì","í","î","ï","ð","ñ","ò","ó","ô","õ","ö","÷","ø","ù",
      "ú","û","ü","ý","þ","ÿ","΄","΅","Ά","·","Έ","Ή","Ί","Ό","Ύ","Ώ","ΐ","Α",
      "Β","Γ","Δ","Ε","Ζ","Η","Θ","Ι","Κ","Λ","Μ","Ν","Ξ","Ο","Π","Ρ","Σ","Τ",
      "Υ","Φ","Χ","Ψ","Ω","Ϊ","Ϋ","ά","έ","ή","ί","ΰ","α","β","γ","δ","ε","ζ",
      "η","θ","ι","κ","λ","μ","ν","ξ","ο","π","ρ","ς","σ","τ","υ","φ","χ","ψ",
      "ω","ϊ","ϋ","ό","ύ","ώ","Ϗ","ϐ","ϑ","ϒ","ϓ","ϔ","ϕ","ϖ","ϗ","Ϙ","ϙ","Ϛ",
      "ϛ","Ϝ","ϝ","Ϟ","ϟ","Ϡ","ϡ","Ϣ","ϣ","Ϥ","ϥ","Ϧ","ϧ","Ϩ","ϩ","Ϫ","ϫ","Ϭ",
      "ϭ","Ϯ","ϯ","ϰ","ϱ","ϲ","ϳ","ϴ","ϵ","϶","Ϸ","ϸ","Ϲ","Ϻ","ϻ","ϼ">>

\* ord(c) within the alphabet: the order Python compares characters by
Ord == [c \in { Alfabeto[k] : k \in DOMAIN Alfabeto } |->
           CHOOSE k \in DOMAIN Alfabeto : Alfabeto[k] = c]

\* The characters the text helpers are defined on.  The tables below are
\* functions on this set, so that lowering, matching or stripping a character
\* outside it has no value in the model.
Caracteres == DOMAIN Ord

\* the characters c with c.lower() != c ...
Maiusculas ==
    <<"A","B","C","D","E","F","G","H","I","J","K","L","M","N","O","P","Q","R",
      "S","T","U","V","W","X","Y","Z","À","Á","Â","Ã","Ä","Å","Æ","Ç","È","É",
      "Ê","Ë","Ì","Í","Î","Ï","Ð","Ñ","Ò","Ó","Ô","Õ","Ö","Ø","Ù","Ú","Û","Ü",
      "Ý","Þ","Ά","Έ","Ή","Ί","Ό","Ύ","Ώ","Α","Β","Γ","Δ","Ε","Ζ","Η","Θ","Ι",
      "Κ","Λ","Μ","Ν","Ξ","Ο","Π","Ρ","Σ","Τ","Υ","Φ","Χ","Ψ","Ω","Ϊ","Ϋ","Ϗ",
      "Ϙ","Ϛ","Ϝ","Ϟ","Ϡ","Ϣ","Ϥ","Ϧ","Ϩ","Ϫ","Ϭ","Ϯ","ϴ","Ϸ","Ϲ","Ϻ">>

\* ... and c.lower(), position by position
Minusculas ==
    <<"a","b","c","d","e","f","g","h","i","j","k","l","m","n","o","p","q","r",
      "s","t","u","v","w","x","y","z","à","á","â","ã","ä","å","æ","ç","è","é",
      "ê","ë","ì","í","î","ï","ð","ñ","ò","ó","ô","õ","ö","ø","ù","ú","û","ü",
      "ý","þ","ά","έ","ή","ί","ό","ύ","ώ","α","β","γ","δ","ε","ζ","η","θ","ι",
      "κ","λ","μ","ν","ξ","ο","π","ρ","σ","τ","υ","φ","χ","ψ","ω","ϊ","ϋ","ϗ",
      "ϙ","ϛ","ϝ","ϟ","ϡ","ϣ","ϥ","ϧ","ϩ","ϫ","ϭ","ϯ","θ","ϸ","ϲ","ϻ">>

Digitos == {"0","1","2","3","4","5","6","7","8","9"}

\* the other characters \w matches: letters without an upper case in the
\* alphabet and the numeric characters str.isalnum() accepts
OutrasLetras ==
    {"ª","²","³","µ","¹","º","¼","½","¾","ß","ÿ","ΐ","ΰ","ς","ϐ","ϑ","ϒ","ϓ",
      "ϔ","ϕ","ϖ","ϰ","ϱ","ϳ","ϵ","ϼ"}

Range(f) == { f[x] : x \in DOMAIN f }

LowerMap == [c \in Caracteres |->
                IF c \in Range(Maiusculas)
                THEN Minusculas[CHOOSE k \in DOMAIN Maiusculas : Maiusculas[k] = c]
                ELSE c]

\* str.lower() on one character, out of context
LowerChar(c) == LowerMap[c]

\* the cased characters, and the case-ignorable ones (Unicode properties)
ComCaixa ==
    {"A","B","C","D","E","F","G","H","I","J","K","L","M","N","O","P","Q","R",
      "S","T","U","V","W","X","Y","Z","a","b","c","d","e","f","g","h","i","j",
      "k","l","m","n","o","p","q","r","s","t","u","v","w","x","y","z","ª","µ",
      "º","À","Á","Â","Ã","Ä","Å","Æ","Ç","È","É","Ê","Ë","Ì","Í","Î","Ï","Ð",
      "Ñ","Ò","Ó","Ô","Õ","Ö","Ø","Ù","Ú","Û","Ü","Ý","Þ","ß","à","á","â","ã",
      "ä","å","æ","ç","è","é","ê","ë","ì","í","î","ï","ð","ñ","ò","ó","ô","õ",
      "ö","ø","ù","ú","û","ü","ý","þ","ÿ","Ά","Έ","Ή","Ί","Ό","Ύ","Ώ","ΐ","Α",
      "Β","Γ","Δ","Ε","Ζ","Η","Θ","Ι","Κ","Λ","Μ","Ν","Ξ","Ο","Π","Ρ","Σ","Τ",
      "Υ","Φ","Χ","Ψ","Ω","Ϊ","Ϋ","ά","έ","ή","ί","ΰ","α","β","γ","δ","ε","ζ",
      "η","θ","ι","κ","λ","μ","ν","ξ","ο","π","ρ","ς","σ","τ","υ","φ","χ","ψ",
      "ω","ϊ","ϋ","ό","ύ","ώ","Ϗ","ϐ","ϑ","ϒ","ϓ","ϔ","ϕ","ϖ","ϗ","Ϙ","ϙ","Ϛ",
      "ϛ","Ϝ","ϝ","Ϟ","ϟ","Ϡ","ϡ","Ϣ","ϣ","Ϥ","ϥ","Ϧ","ϧ","Ϩ","ϩ","Ϫ","ϫ","Ϭ",
      "ϭ","Ϯ","ϯ","ϰ","ϱ","ϲ","ϳ","ϴ","ϵ","Ϸ","ϸ","Ϲ","Ϻ","ϻ","ϼ"}

CaixaIgnoravel ==
    {"'",".",":","^","¨","­","¯","´","·","¸","΄","΅","·"}

\* the two properties as tables on the characters
TemCaixa == [c \in Caracteres |-> c \in ComCaixa]

Ignoravel == [c \in Caracteres |-> c \in CaixaIgnoravel]

\* str.lower() writes a capital sigma as the final sigma when, case-ignorable
\* characters aside, a cased character precedes it and none follows it
FinalSigma(s, k) ==
    LET atras  == { j \in 1..(k - 1) : ~Ignoravel[s[j]] }
        frente == { j \in (k + 1)..Len(s) : ~Ignoravel[s[j]] }
    IN  /\ atras # {}
        /\ TemCaixa[s[CHOOSE j \in atras : \A i \in atras : i <= j]]
        /\ \/ frente = {}
           \/ ~TemCaixa[s[CHOOSE j \in frente : \A i \in frente : j <= i]]

\* str.lower()
Lower(s) ==
    [k \in DOMAIN s |->
        IF s[k] = "Σ" THEN (IF FinalSigma(s, k) THEN "ς" ELSE "σ")
        ELSE LowerChar(s[k])]

\* the characters of the alphabet that the regular expression \w matches
WordChars ==
    Range(Maiusculas) \cup Range(Minusculas) \cup OutrasLetras \cup Digitos \cup {"_"}

EhPalavra == [c \in Caracteres |-> c \in WordChars]

\* whether the regular expression \w matches the character
IsWordChar(c) == EhPalavra[c]

\* set(re.findall(r"\w+", s)): the maximal runs of word characters of s;
\* cur is the run being read
RECURSIVE FindAllWords(_, _)
FindAllWords(s, cur) ==
    IF s = <<>> THEN (IF cur = <<>> THEN {} ELSE {cur})
    ELSE IF IsWordChar(Head(s))
         THEN FindAllWords(Tail(s), Append(cur, Head(s)))
         ELSE (IF cur = <<>> THEN {} ELSE {cur}) \cup FindAllWords(Tail(s), <<>>)

\* t.count(sub) from offset i: occurrences counted left to right without overlap
RECURSIVE CountFrom(_, _, _)
CountFrom(t, sub, i) ==
    IF i + Len(sub) > Len(t) THEN 0
    ELSE IF Slice(t, i, i + Len(sub)) = sub
         THEN 1 + CountFrom(t, sub, i + Len(sub))
         ELSE CountFrom(t, sub, i + 1)

StrCount(t, sub) == CountFrom(t, sub, 0)

(***************************************************************************)
(* buscar_blocos_relevantes                                                *)
(***************************************************************************)
stopwords ==
    { <<"o">>, <<"a">>, <<"d","e">>, <<"d","a">>, <<"d","o">>, <<"e">>, <<"é">>,
      <<"p","a","r","a">>, <<"c","o","m">>, <<"u","m">>, <<"u","m","a">>,
      <<"o","s">>, <<"a","s">> }

\* palavras = set(p.lower() for p in re.findall(r"\w+", pergunta.lower())
\*                if len(p) > 2 and p not in stopwords)
Palavras(perg) ==
    { Lower(w) : w \in { x \in FindAllWords(Lower(perg), <<>>) :
                            Len(x) > 2 /\ x \notin stopwords } }

\* sum(texto_lower.count(p) for p in palavras)
RECURSIVE SomaContagens(_, _)
SomaContagens(texto_lower, palavras) ==
    IF palavras = {} THEN 0
    ELSE LET w == CHOOSE x \in palavras : TRUE
         IN  StrCount(texto_lower, w) + SomaContagens(texto_lower, palavras \ {w})

Score(bloco, palavras) == SomaContagens(Lower(bloco.texto), palavras)

\* if score > 0: scores.append((score, bloco))
Manter(score) == score > 0

\* the list `scores` before sorting: (score, bloco) of the kept blocks, in input order
RECURSIVE Pontuados(_, _)
Pontuados(bs, palavras) ==
    IF bs = <<>> THEN <<>>
    ELSE LET sc == Score(Head(bs), palavras)
         IN  (IF Manter(sc) THEN << <<sc, Head(bs)>> >> ELSE <<>>)
             \o Pontuados(Tail(bs), palavras)

\* variant: an unstable sort that puts x before the elements of equal key
PosicaoInstavel(t, x) == Cardinality({ k \in DOMAIN t : t[k][1] > x[1] })

\* position of x in the descending list t: list.sort is stable, so x goes
\* after every element whose key is >= its own
Posicao(t, x) == Cardinality({ k \in DOMAIN t : t[k][1] >= x[1] })

\* scores.sort(key=lambda x: x[0], reverse=True)
RECURSIVE SortDesc(_)
SortDesc(s) ==
    IF s = <<>> THEN <<>>
    ELSE LET t == SortDesc(Front(s))
             x == Last(s)
             n == Posicao(t, x)
         IN  SubSeq(t, 1, n) \o <<x>> \o SubSeq(t, n + 1, Len(t))

\* scores[:top_k], top_k >= 0
Primeiros(s, top_k) == SubSeq(s, 1, Min(top_k, Len(s)))

buscar_blocos_relevantes(perg, bs, top_k) ==
    IF bs = <<>> THEN <<>>
    ELSE LET ord == Primeiros(SortDesc(Pontuados(bs, Palavras(perg))), top_k)
         IN  [k \in DOMAIN ord |-> ord[k][2]]

(***************************************************************************)
(* Conversations: gerar_id_conversa, criar_titulo_conversa,                *)
(* carregar_conversas.                                                     *)
(* A conversation is [id, titulo, timestamp, mensagens, nova]; a loaded    *)
(* one has no "nova" key, which conversa.get("nova", False) reads as False.*)
(* A persisted row is [question, answer, created_at], created_at in whole  *)
(* seconds.                                                                *)
(***************************************************************************)
TituloMax == 50        \* primeira_pergunta[:50]
GapMaximo == 1800      \* seconds of idle gap that still continue a conversation

\* str(uuid.uuid4())[:12]: the n-th identifier drawn, distinct from the others
gerar_id_conversa(n) == ToString(n)

criar_titulo_conversa(primeira_pergunta) ==
    Slice(primeira_pergunta, 0, TituloMax)
    \o (IF Len(primeira_pergunta) > TituloMax THEN <<".", ".", ".">> ELSE <<>>)

Msg(role, content) == [role |-> role, content |-> content]

\* variant: a gap of exactly 1800 s already opens a conversation
ExcedeGapInclusive(created_at, ultima_data) == (created_at - ultima_data) >= GapMaximo

\* (created_at - ultima_data).total_seconds() > 1800
ExcedeGap(created_at, ultima_data) == (created_at - ultima_data) > GapMaximo

\* The loop `for row in response.data`: conversas is the list built so far,
\* atual is conversa_atual (<<>> for None, else <<the conversation>>), ultima
\* is ultima_data (<<>> for None), n counts the identifiers drawn before.
RECURSIVE AgruparRows(_, _, _, _, _)
AgruparRows(rows, convs, atual, ultima, n) ==
    IF rows = <<>>
    THEN convs \o atual                       \* if conversa_atual: conversas.append(...)
    ELSE LET row   == Head(rows)
             abre  == ultima = <<>> \/ ExcedeGap(row.created_at, ultima[1])
             convs2 == IF abre THEN convs \o atual ELSE convs
             base  == IF abre
                      THEN [id        |-> gerar_id_conversa(n + 1),
                            titulo    |-> criar_titulo_conversa(row.question),
                            timestamp |-> row.created_at,
                            mensagens |-> <<>>,
                            nova      |-> FALSE]
                      ELSE atual[1]
             cur   == [base EXCEPT !.mensagens =
                          @ \o <<Msg("user", row.question), Msg("assistant", row.answer)>>]
         IN  AgruparRows(Tail(rows), convs2, <<cur>>, <<row.created_at>>,
                         IF abre THEN n + 1 ELSE n)

\* list(reversed(conversas))
Reversed(s) == [k \in 1..Len(s) |-> s[Len(s) + 1 - k]]

\* carregar_conversas: rows are the user's rows ordered by created_at
\* ascending; falha is the remote query (or the parsing) raising, n the
\* number of identifiers drawn before the call
carregar_conversas(rows, falha, n) ==
    IF falha THEN <<>>
    ELSE Reversed(AgruparRows(rows, <<>>, <<>>, <<>>, n))

(***************************************************************************)
(* extrair_texto_pdf and the upload handler.                               *)
(* A PDF is [nome, legivel, paginas]: legivel is FALSE when PdfReader      *)
(* raises on the bytes; a page is [erro, texto]: erro is TRUE when         *)
(* page.extract_text() raises, texto is <<>> when it returns None or "".   *)
(***************************************************************************)
TamanhoPadrao == 1500  \* default window size
OverlapPadrao == 300   \* default overlap

\* the characters of the alphabet that str.strip() removes
Whitespace ==
    {"\t","\n","","\f","\r","","","",""," ",""," "}

EhEspaco == [c \in Caracteres |-> c \in Whitespace]

\* bool(texto and texto.strip())
TemTexto(texto) == \E k \in DOMAIN texto : ~EhEspaco[texto[k]]

\* The loop `for i, page in enumerate(reader.pages)` from page i on; an
\* exception leaves the loop (ok = FALSE).
RECURSIVE LerPaginas(_, _, _)
LerPaginas(pdf, i, paginas) ==
    IF i > Len(pdf.paginas) THEN [ok |-> TRUE, paginas |-> paginas]
    ELSE IF pdf.paginas[i].erro THEN [ok |-> FALSE, paginas |-> paginas]
    ELSE LerPaginas(pdf, i + 1,
                    IF TemTexto(pdf.paginas[i].texto)
                    THEN Append(paginas, [pagina  |-> i,
                                          texto   |-> pdf.paginas[i].texto,
                                          arquivo |-> pdf.nome])
                    ELSE paginas)

\* try: ... return paginas / except Exception: return []
extrair_texto_pdf(pdf) ==
    IF ~pdf.legivel THEN <<>>
    ELSE LET r == LerPaginas(pdf, 1, <<>>)
         IN  IF r.ok THEN r.paginas ELSE <<>>

\* todas_paginas: the pages of every file of the batch, in order
RECURSIVE TodasPaginas(_)
TodasPaginas(pdfs) ==
    IF pdfs = <<>> THEN <<>>
    ELSE extrair_texto_pdf(Head(pdfs)) \o TodasPaginas(Tail(pdfs))

\* st.session_state["blocos"] = dividir_em_blocos_paginas(todas_paginas)
ProcessarManuais(pdfs) ==
    dividir_em_blocos_paginas(TodasPaginas(pdfs), TamanhoPadrao, OverlapPadrao)

(***************************************************************************)
(* Usage gate, persistence and answer generation.                          *)
(***************************************************************************)
TopK == 5              \* top_k=5 in renderizar_chat

\* What supabase.rpc("check_usage_limit_user", ...).execute() can give:
\* response.data a bool, a list of one-column rows, something else, or the
\* call raising.
RespostasRpc ==
    { [tipo |-> "bool",  linhas |-> <<>>,       valor |-> TRUE],
      [tipo |-> "bool",  linhas |-> <<>>,       valor |-> FALSE],
      [tipo |-> "list",  linhas |-> <<TRUE>>,   valor |-> FALSE],
      [tipo |-> "list",  linhas |-> <<FALSE>>,  valor |-> FALSE],
      [tipo |-> "list",  linhas |-> <<>>,       valor |-> FALSE],
      [tipo |-> "none",  linhas |-> <<>>,       valor |-> FALSE],
      [tipo |-> "raise", linhas |-> <<>>,       valor |-> FALSE] }

\* variant: a failed quota call counts as a denial
FalhaFechada(r) == FALSE

\* except Exception: return True
FalhaAberta(r) == TRUE

verificar_limite_uso(r) ==
    IF r.tipo = "raise" THEN FalhaAberta(r)
    ELSE IF r.tipo = "bool" THEN r.valor                  \* isinstance(result, bool)
    ELSE IF r.tipo = "list" /\ Len(r.linhas) > 0
         THEN r.linhas[1]                                 \* bool(list(result[0].values())[0])
    ELSE TRUE

\* str.strip()
RECURSIVE LStrip(_)
LStrip(s) == IF s # <<>> /\ EhEspaco[Head(s)] THEN LStrip(Tail(s)) ELSE s

RECURSIVE RStrip(_)
RStrip(s) == IF s # <<>> /\ EhEspaco[Last(s)] THEN RStrip(Front(s)) ELSE s

Strip(s) == RStrip(LStrip(s))

\* the names of the uploaded files
NomesPdf == <<"a.pdf", "b.pdf", "c.pdf", "d.pdf">>

\* a < b as Python compares two str: character by character from position k,
\* by code point, a proper prefix first
RECURSIVE StrMenor(_, _, _)
StrMenor(a, b, k) ==
    IF k > Len(b) THEN FALSE
    ELSE IF k > Len(a) THEN TRUE
    ELSE LET x == SubSeq(a, k, k)
             y == SubSeq(b, k, k)
         IN  IF x = y THEN StrMenor(a, b, k + 1) ELSE Ord[x] < Ord[y]

\* sorted(arquivos_usados)
RECURSIVE ArquivosOrdenados(_)
ArquivosOrdenados(nomes) ==
    IF nomes = {} THEN <<>>
    ELSE LET m == CHOOSE x \in nomes : \A y \in nomes \ {x} : StrMenor(x, y, 1)
         IN  <<m>> \o ArquivosOrdenados(nomes \ {m})

\* ', '.join(xs)
RECURSIVE Join(_)
Join(xs) ==
    IF xs = <<>> THEN <<>>
    ELSE IF Len(xs) = 1 THEN <<xs[1]>>
    ELSE <<xs[1], ", ">> \o Join(Tail(xs))

\* sorted(paginas_usadas) as strings
RECURSIVE PaginasOrdenadas(_)
PaginasOrdenadas(ps) ==
    IF ps = {} THEN <<>>
    ELSE LET m == CHOOSE x \in ps : \A y \in ps : x <= y
         IN  <<ToString(m)>> \o PaginasOrdenadas(ps \ {m})

\* the footer gerar_resposta appends to the model's text
Rodape(bs) ==
    LET paginas_usadas  == { bs[k].pagina : k \in DOMAIN bs }
        arquivos_usados == { bs[k].arquivo : k \in DOMAIN bs } \ {""}
    IN  IF arquivos_usados = {} /\ paginas_usadas = {} THEN <<>>
        ELSE <<"\n\n---\nFontes consultadas:\n">>
             \o (IF arquivos_usados # {}
                 THEN <<"Arquivos: ">>
                      \o Join(ArquivosOrdenados(arquivos_usados))
                      \o <<"\n">>
                 ELSE <<>>)
             \o (IF paginas_usadas # {}
                 THEN <<"Paginas: ">> \o Join(PaginasOrdenadas(paginas_usadas))
                 ELSE <<>>)

\* gerar_resposta when model.generate_content(prompt) returns `texto`
gerar_resposta(texto, bs) == Strip(texto) \o Rodape(bs)

\* the fixed notice of the no-match branch
resposta_aviso == <<"Nao encontrei informacoes relevantes nos manuais carregados.">>

\* the row salvar_consulta inserts; created_at is set by the store
NovaConsulta(perg, resp, t) == [question |-> perg, answer |-> resp, created_at |-> t]

(***************************************************************************)
(* Session state: obter_conversa_ativa, criar_nova_conversa,               *)
(* inicializar_session_state.  conversa_ativa_id is "ABSENT" when the key  *)
(* is not in st.session_state, "NONE" when it holds None, else an id.      *)
(* The runtime stops a run at an access to st.session_state, as at an      *)
(* st.* call, when a widget event has arrived meanwhile; the writes made   *)
(* so far stay.  A function that writes the session takes `passos`, the    *)
(* number of its writes the run made: all of them when it was not stopped. *)
(***************************************************************************)
\* the writes of criar_nova_conversa: lines 157, 158, 159
EscritasCriar == 3

\* the writes of inicializar_session_state for a missing pointer: 620, 621
EscritasInicializar == 2

\* index of the active conversation in convs, 0 for None
obter_conversa_ativa(convs, ativa) ==
    IF ativa # "ABSENT" /\ \E k \in DOMAIN convs : convs[k].id = ativa
    THEN CHOOSE k \in DOMAIN convs :
            convs[k].id = ativa /\ \A j \in 1..(k - 1) : convs[j].id # ativa
    ELSE 0

\* the dict criar_nova_conversa builds
NovaConversaVazia(n, t) ==
    [id        |-> gerar_id_conversa(n),
     titulo    |-> <<"Nova conversa">>,
     timestamp |-> t,
     mensagens |-> <<>>,
     nova      |-> TRUE]

\* the session's conversation state
Sessao(convs, ativa, hist) == [conversas |-> convs, ativa |-> ativa, historico |-> hist]

\* criar_nova_conversa on session s: insert at the front, make active, clear
\* the history
criar_nova_conversa(s, n, t, passos) ==
    Sessao(IF passos >= 1 THEN <<NovaConversaVazia(n, t)>> \o s.conversas
                          ELSE s.conversas,
           IF passos >= 2 THEN gerar_id_conversa(n) ELSE s.ativa,
           IF passos >= 3 THEN <<>> ELSE s.historico)

\* inicializar_session_state on a session whose "conversas" and "historico"
\* keys exist: only the missing active pointer is set, then the history.
\* A run stopped before line 620 leaves the pointer missing, and the next
\* run starts here again.
inicializar_session_state(s, passos) ==
    IF s.ativa = "ABSENT" /\ s.conversas # <<>>
    THEN Sessao(s.conversas, s.conversas[1].id,
                IF passos >= 2 THEN s.conversas[1].mensagens ELSE s.historico)
    ELSE s

\* variant: the message reaches the displayed history only
AnexarSoHistorico(s, k, m) == Sessao(s.conversas, s.ativa, Append(s.historico, m))

\* append m to the history and to the conversation at index k
Anexar(s, k, m) ==
    Sessao([s.conversas EXCEPT ![k].mensagens = Append(@, m)], s.ativa,
           Append(s.historico, m))

(***************************************************************************)
(* Values of the variable groups a specification does not use.             *)
(***************************************************************************)
ChunkOff ==
    /\ c_paginas = <<>> /\ c_tamanho = 0 /\ c_overlap = 0
    /\ c_p = 0 /\ c_i = 0 /\ c_blocos = <<>> /\ c_pc = "off"

BuscaOff ==
    /\ b_pergunta = <<>> /\ b_blocos = <<>> /\ b_top_k = 0
    /\ b_resultado = <<>> /\ b_pc = "off"

LoadOff ==
    /\ l_rows = <<>> /\ l_falha = FALSE /\ l_conversas = <<>> /\ l_pc = "off"

UploadOff ==
    /\ u_pdfs = <<>> /\ u_blocos = <<>> /\ u_pc = "off"

SessOff ==
    /\ usuario = FALSE /\ conversas = <<>> /\ conversa_ativa_id = "ABSENT"
    /\ historico = <<>> /\ blocos = <<>>
    /\ pc = "off" /\ pergunta = <<>> /\ selecionados = <<>>
    /\ resposta = <<>> /\ chamadas = <<>> /\ antes = <<>>
    /\ tela = ""
    /\ consultas = <<>> /\ usos = 0 /\ permitidos = 0
    /\ agora = 0 /\ proxId = 0 /\ interacoes = 0

(***************************************************************************)
(* Specification of the chunker: the inputs are drawn by InitChunk, the    *)
(* loop of dividir_em_blocos_paginas runs one iteration per step.          *)
(* Page texts are never empty: extrair_texto_pdf keeps a page only when    *)
(* its text is non-blank (line 173).                                       *)
(***************************************************************************)
PaginasChunk ==
    UNION { [1..n -> 1..MaxL] : n \in 1..MaxPaginasChunk }

InitChunk ==
    /\ \E ls \in PaginasChunk :
          c_paginas = [k \in 1..Len(ls) |->
                         [pagina |-> k, arquivo |-> "m.pdf", texto |-> TextoDe(ls[k])]]
    /\ c_tamanho \in 1..MaxW
    /\ c_overlap \in 0..(c_tamanho - 1)
    /\ c_p = 1 /\ c_i = 0 /\ c_blocos = <<>> /\ c_pc = "loop"
    /\ BuscaOff /\ LoadOff /\ UploadOff /\ SessOff

\* for p in paginas: ... -- the loop is over when the pages are exhausted
ChunkFim ==
    /\ c_pc = "loop"
    /\ c_p > Len(c_paginas)
    /\ c_pc' = "done"
    /\ UNCHANGED <<c_paginas, c_tamanho, c_overlap, c_p, c_i, c_blocos>>
    /\ UNCHANGED <<buscaVars, loadVars, uploadVars, sessaoVars>>

\* one iteration of `while i < len(texto)` for the current page
ChunkPasso ==
    /\ c_pc = "loop"
    /\ c_p <= Len(c_paginas)
    /\ LET p   == c_paginas[c_p]
           len == Len(p.texto)
           fim == FimDaJanela(c_i, c_tamanho, len)
       IN  IF ~(c_i < len)
           THEN /\ c_p' = c_p + 1 /\ c_i' = 0 /\ c_blocos' = c_blocos
           ELSE /\ c_blocos' = Append(c_blocos, BlocoDe(p, c_i, fim))
                /\ IF fim >= len
                   THEN c_p' = c_p + 1 /\ c_i' = 0
                   ELSE c_p' = c_p /\ c_i' = ProximoInicio(fim, c_overlap)
    /\ UNCHANGED <<c_paginas, c_tamanho, c_overlap, c_pc>>
    /\ UNCHANGED <<buscaVars, loadVars, uploadVars, sessaoVars>>

NextChunk == ChunkPasso \/ ChunkFim

SpecChunk == InitChunk /\ [][NextChunk]_vars /\ WF_vars(NextChunk)

\* ---- C6 ----
\* blocks produced so far for page number k
BlocosDe(k) == SelectSeq(c_blocos, LAMBDA b : b.pagina = k)

\* ceil((L-O)/(W-O)) when L > W, else 1
NumEsperado(len, tamanho, overlap) ==
    IF len > tamanho THEN CeilDiv(len - overlap, tamanho - overlap) ELSE 1

\* page k is finished: its windows are exactly the windows
\* [j*(W-O), min(j*(W-O)+W, L)), j = 0..n-1, they cover [0,L), each is at
\* most W long, and n is the expected number
PaginaCorreta(k) ==
    LET t    == c_paginas[k].texto
        len  == Len(t)
        bs   == BlocosDe(k)
        step == c_tamanho - c_overlap
        ini(j) == (j - 1) * step
        end(j) == Min(ini(j) + c_tamanho, len)
    IN  /\ Len(bs) = NumEsperado(len, c_tamanho, c_overlap)
        /\ \A j \in 1..Len(bs) :
              /\ Len(bs[j].texto) <= c_tamanho
              /\ bs[j].texto = Slice(t, ini(j), end(j))
              /\ bs[j].arquivo = c_paginas[k].arquivo
        /\ \A x \in 0..(len - 1) :
              \E j \in 1..Len(bs) : ini(j) <= x /\ x < end(j)
        /\ (len <= c_tamanho) => (bs = <<[pagina |-> k, arquivo |-> c_paginas[k].arquivo,
                                          texto |-> t]>>)

C6_Inv ==
    (c_pc \in {"loop", "done"}) =>
        /\ \A k \in 1..Len(c_paginas) :
              /\ (k < c_p) => PaginaCorreta(k)
              /\ (k = c_p) =>
                     /\ c_i < Len(c_paginas[k].texto)
                     /\ Len(BlocosDe(k)) <
                          Max(1, NumEsperado(Len(c_paginas[k].texto), c_tamanho, c_overlap) )
                     /\ Len(BlocosDe(k)) >= 0
              /\ (k > c_p) => BlocosDe(k) = <<>>
        /\ (c_pc = "done") => c_p = Len(c_paginas) + 1

\* C6: for every page text of length L >= 1 and every (W,O) with 0 <= O < W
\* the chunker terminates, its windows cover [0,L), every window is at most
\* W long, and it yields ceil((L-O)/(W-O)) chunks when L > W and one chunk,
\* the whole text, otherwise.
C6_Chunker == []C6_Inv /\ <>(c_pc = "done")

\* a finished run with a page cut into at least three overlapping windows
C6_Witness ==
    /\ c_pc = "done"
    /\ c_overlap > 0
    /\ \E k \in 1..Len(c_paginas) :
          Len(c_paginas[k].texto) > c_tamanho /\ Len(BlocosDe(k)) >= 3
    /\ \E k \in 1..Len(c_paginas) : Len(c_paginas[k].texto) < c_tamanho

(***************************************************************************)
(* Specification of the retriever: question, chunk list and K are drawn by *)
(* InitBusca and Buscar applies buscar_blocos_relevantes.                  *)
(***************************************************************************)
MaxBlocosBusca == 3    \* longest chunk list given to the retriever
MaxTopK == 2           \* largest K given to the retriever

PerguntasBusca ==
    { <<"u","m","a">>,                         \* a stopword only
      <<"M","a","u","?">>,                     \* one token, upper case
      <<"m","a","u","-","a","m","u">>,         \* two tokens
      <<"m","m","m"," ","u","m">>,             \* self-overlapping token, short word
      <<"A","ç","ã","o">>,                     \* letters outside ASCII
      <<>> }

TextosBusca ==
    { <<"m","a","u">>,
      <<"M","A","U"," ","m","a","u","s">>,
      <<"m","m","m","m","m"," ","a","m","u">>,
      <<"A","Ç","Ã","O">>,
      <<"x","y","z">> }

InitBusca ==
    /\ b_pergunta \in PerguntasBusca
    /\ \E n \in 0..MaxBlocosBusca : \E ts \in [1..n -> TextosBusca] :
          b_blocos = [k \in 1..n |-> [pagina |-> k, arquivo |-> "m.pdf", texto |-> ts[k]]]
    /\ b_top_k \in 0..MaxTopK
    /\ b_resultado = <<>> /\ b_pc = "call"
    /\ ChunkOff /\ LoadOff /\ UploadOff /\ SessOff

Buscar ==
    /\ b_pc = "call"
    /\ b_resultado' = buscar_blocos_relevantes(b_pergunta, b_blocos, b_top_k)
    /\ b_pc' = "done"
    /\ UNCHANGED <<b_pergunta, b_blocos, b_top_k>>
    /\ UNCHANGED <<chunkVars, loadVars, uploadVars, sessaoVars>>

NextBusca == Buscar

SpecBusca == InitBusca /\ [][NextBusca]_vars

\* ---- C7 ----
\* score of the k-th input chunk
ScoreDoBloco(k) == Score(b_blocos[k], Palavras(b_pergunta))

\* indices of the input chunks with a positive score
Positivos == { k \in DOMAIN b_blocos : ScoreDoBloco(k) > 0 }

\* number of positive chunks that precede chunk k in the order "score
\* descending, ties in input order"
Rank(k) ==
    Cardinality({ j \in Positivos :
                    \/ ScoreDoBloco(j) > ScoreDoBloco(k)
                    \/ (ScoreDoBloco(j) = ScoreDoBloco(k) /\ j < k) })

\* C7: the retriever returns at most K chunks, none of score 0, and exactly
\* the first K of the positive-score chunks in the order score descending,
\* ties in input order.
C7_Retriever ==
    (b_pc = "done") =>
        /\ Len(b_resultado) <= b_top_k
        /\ \A r \in DOMAIN b_resultado : Score(b_resultado[r], Palavras(b_pergunta)) > 0
        /\ Len(b_resultado) = Min(b_top_k, Cardinality(Positivos))
        /\ \A r \in DOMAIN b_resultado :
              \E k \in Positivos : Rank(k) = r - 1 /\ b_resultado[r] = b_blocos[k]

\* a call that cuts the list at K = 1: two chunks tie on a positive score, the
\* earlier one is returned, and the input also holds a zero-score chunk
C7_Witness ==
    /\ b_pc = "done"
    /\ b_top_k = 1
    /\ Cardinality(Positivos) > b_top_k
    /\ \E j, k \in Positivos : j < k /\ ScoreDoBloco(j) = ScoreDoBloco(k)
                               /\ ScoreDoBloco(j) >= 2
                               /\ b_resultado = <<b_blocos[j]>>
    /\ \E k \in DOMAIN b_blocos : ScoreDoBloco(k) = 0

(***************************************************************************)
(* Specification of conversation loading: the persisted rows are drawn by  *)
(* InitLoad (ascending creation times, as the query orders them) and       *)
(* Carregar applies carregar_conversas.                                    *)
(***************************************************************************)
MaxRows == 3           \* most persisted rows in the loading specification

\* gaps between consecutive rows, in seconds
GapsLoad == {0, GapMaximo, GapMaximo + 1, 86400 + 60}

PerguntaLonga == [k \in 1..(TituloMax + 1) |-> "x"]

\* the question of the k-th row: short, or longer than the title limit
PerguntasLoad(k) == { <<"q", ToString(k)>>, PerguntaLonga \o <<ToString(k)>> }

RECURSIVE TemposDe(_, _)
TemposDe(t0, gaps) ==
    IF gaps = <<>> THEN <<t0>>
    ELSE <<t0>> \o TemposDe(t0 + Head(gaps), Tail(gaps))

RowsLoad ==
    {<<>>} \cup
    UNION { { [k \in 1..n |-> [question   |-> qs[k],
                                answer     |-> <<"r", ToString(k)>>,
                                created_at |-> TemposDe(1000, gs)[k]]] :
                qs \in { f \in [1..n -> UNION { PerguntasLoad(k) : k \in 1..n }] :
                           \A k \in 1..n : f[k] \in PerguntasLoad(k) },
                gs \in [1..(n - 1) -> GapsLoad] } : n \in 1..MaxRows }

InitLoad ==
    /\ l_rows \in RowsLoad
    /\ l_falha \in BOOLEAN
    /\ l_conversas = <<>> /\ l_pc = "call"
    /\ ChunkOff /\ BuscaOff /\ UploadOff /\ SessOff

Carregar ==
    /\ l_pc = "call"
    /\ l_conversas' = carregar_conversas(l_rows, l_falha, 0)
    /\ l_pc' = "done"
    /\ UNCHANGED <<l_rows, l_falha>>
    /\ UNCHANGED <<chunkVars, buscaVars, uploadVars, sessaoVars>>

NextLoad == Carregar

SpecLoad == InitLoad /\ [][NextLoad]_vars

\* ---- C5 ----
\* the loaded conversations, oldest first
Cronologicas == [k \in 1..Len(l_conversas) |-> l_conversas[Len(l_conversas) + 1 - k]]

\* number of rows held by the first j conversations, oldest first
RECURSIVE RowsAte(_)
RowsAte(j) == IF j = 0 THEN 0 ELSE RowsAte(j - 1) + (Len(Cronologicas[j].mensagens) \div 2)

\* the conversation (index into Cronologicas) that holds row k
ConversaDaRow(k) == CHOOSE j \in 1..Len(l_conversas) : RowsAte(j - 1) < k /\ k <= RowsAte(j)

\* the two messages of row k
MsgsDaRow(k) == <<Msg("user", l_rows[k].question), Msg("assistant", l_rows[k].answer)>>

\* C5: loading rows ordered by creation time puts every row, in order, in one
\* conversation; consecutive rows more than 1800 s apart are in different
\* conversations, consecutive rows at most 1800 s apart in the same one, a
\* single row forms one conversation, and the conversations are returned
\* most recent first.
C5_Grouping ==
    (l_pc = "done" /\ ~l_falha) =>
        /\ RowsAte(Len(l_conversas)) = Len(l_rows)
        /\ \A j \in 1..Len(l_conversas) : Len(l_conversas[j].mensagens) >= 2
        /\ \A k \in 1..Len(l_rows) :
              LET c == Cronologicas[ConversaDaRow(k)]
                  o == 2 * (k - RowsAte(ConversaDaRow(k) - 1))
              IN  SubSeq(c.mensagens, o - 1, o) = MsgsDaRow(k)
        /\ \A k \in 1..(Len(l_rows) - 1) :
              LET gap == l_rows[k + 1].created_at - l_rows[k].created_at
              IN  /\ (gap > 1800)  => ConversaDaRow(k) # ConversaDaRow(k + 1)
                  /\ (gap <= 1800) => ConversaDaRow(k) = ConversaDaRow(k + 1)
        /\ (Len(l_rows) = 1) => Len(l_conversas) = 1
        /\ \A j \in 1..Len(l_conversas) :
              l_conversas[j].timestamp = l_rows[RowsAte(Len(l_conversas) - j) + 1].created_at
        /\ \A j \in 1..(Len(l_conversas) - 1) :
              l_conversas[j].timestamp > l_conversas[j + 1].timestamp

\* three rows, the second exactly 1800 s after the first and the third 1801 s
\* after the second: two conversations, the later one first
C5_Witness ==
    /\ l_pc = "done" /\ ~l_falha
    /\ Len(l_rows) = 3
    /\ l_rows[2].created_at - l_rows[1].created_at = 1800
    /\ l_rows[3].created_at - l_rows[2].created_at = 1801
    /\ Len(l_conversas) = 2
    /\ Len(l_conversas[1].mensagens) = 2
    /\ Len(l_conversas[2].mensagens) = 4

(***************************************************************************)
(* Specification of the upload handler: the batch of PDFs is drawn by      *)
(* InitUpload and Processar runs the extraction and the chunking.          *)
(***************************************************************************)
MaxPdfs == 2           \* most files in one upload batch
MaxPaginasPdf == 2     \* most pages in one file

\* what a page can be: text, blank text (a space, or CR and form feed), no
\* text, extraction raising
PaginasPdf ==
    { [erro |-> FALSE, texto |-> <<"m","a","u">>],
      [erro |-> FALSE, texto |-> <<" ">>],
      [erro |-> FALSE, texto |-> <<"\r", "\f">>],
      [erro |-> FALSE, texto |-> <<>>],
      [erro |-> TRUE,  texto |-> <<>>] }

ConteudosPdf == UNION { [1..n -> PaginasPdf] : n \in 1..MaxPaginasPdf }

InitUpload ==
    /\ \E n \in 1..MaxPdfs : \E cs \in [1..n -> ConteudosPdf] : \E ls \in [1..n -> BOOLEAN] :
          u_pdfs = [k \in 1..n |-> [nome |-> NomesPdf[k], legivel |-> ls[k],
                                    paginas |-> cs[k]]]
    /\ u_blocos = <<>> /\ u_pc = "call"
    /\ ChunkOff /\ BuscaOff /\ LoadOff /\ SessOff

Processar ==
    /\ u_pc = "call"
    /\ u_blocos' = ProcessarManuais(u_pdfs)
    /\ u_pc' = "done"
    /\ UNCHANGED u_pdfs
    /\ UNCHANGED <<chunkVars, buscaVars, loadVars, sessaoVars>>

NextUpload == Processar

SpecUpload == InitUpload /\ [][NextUpload]_vars

\* ---- C8 ----
\* page i of file f can be read: the file opens, the page's extraction does
\* not raise and gives non-blank text
PaginaLegivel(f, i) ==
    /\ u_pdfs[f].legivel
    /\ ~u_pdfs[f].paginas[i].erro
    /\ TemTexto(u_pdfs[f].paginas[i].texto)

\* page i of file f was extracted and chunked
PaginaIndexada(f, i) ==
    \E k \in DOMAIN u_blocos :
        /\ u_blocos[k].arquivo = u_pdfs[f].nome
        /\ u_blocos[k].pagina = i
        /\ u_blocos[k].texto = u_pdfs[f].paginas[i].texto

\* C8: a page that cannot be extracted costs only that page: every readable
\* page of the same file and of the other files of the batch is extracted
\* and chunked.
C8_PageIsolation ==
    (u_pc = "done") =>
        \A f \in DOMAIN u_pdfs : \A i \in DOMAIN u_pdfs[f].paginas :
            PaginaLegivel(f, i) => PaginaIndexada(f, i)

(***************************************************************************)
(* Specification of one browser session.  Every user interaction runs the  *)
(* page script once; a handler that ends in st.rerun() is followed by the  *)
(* script's inicializar_session_state.  A question turn is run one call at *)
(* a time, pc naming the call about to be made:                            *)
(*   QUOTA_CHECK -> REJECTED | INCREMENT -> RETRIEVE -> DONE (no match)    *)
(*                | GENERATE -> DONE (failure) | PERSIST -> DONE.          *)
(* A widget event that arrives while the script runs stops the run at its  *)
(* next st.* call or access to st.session_state, and the event's handler   *)
(* runs in the rerun.                                                      *)
(* chamadas logs the remote and LLM calls of the turn and whether each     *)
(* returned, antes is the state                                            *)
(* when the question was submitted, tela the status message shown.         *)
(***************************************************************************)
MaxInteracoes == 4     \* user interactions (script runs) in one behaviour

Repouso == {"IDLE", "DONE", "REJECTED"}

\* the questions asked in the session: one made of a stopword only, one
\* matching the manual and longer than the title limit
PerguntasSessao == { <<"u","m","a">>, <<"M","a","u","?"," ">> \o PerguntaLonga }

\* seconds between two interactions
Esperas == {60, GapMaximo + 1}

\* the batches uploaded in the session: a two-page manual, a file that
\* cannot be read
ManuaisSessao ==
    { << [nome |-> "a.pdf", legivel |-> TRUE,
          paginas |-> << [erro |-> FALSE, texto |-> <<"m","a","u">>],
                         [erro |-> FALSE, texto |-> <<"M","A","U"," ","m","a","u","s">>] >>] >>,
      << [nome |-> "b.pdf", legivel |-> FALSE, paginas |-> <<>>] >> }

\* what model.generate_content(prompt).text can be: a text, or the call raising
SaidasLLM ==
    { [erro |-> FALSE, texto |-> <<" ", "o", "k", "\r", "\n">>],
      [erro |-> TRUE,  texto |-> <<>>] }

\* the rows the store holds for the user when the session starts
ConsultasIniciais ==
    { <<>>,
      << NovaConsulta(<<"q","1">>, <<"r","1">>, 1000),
         NovaConsulta(<<"q","2">>, <<"r","2">>, 1000 + GapMaximo + 1) >> }

\* a remote or LLM call of the turn; ok is FALSE when the call raised
Chamada(op, ok) == [op |-> op, ok |-> ok]

Foto == [conversas |-> conversas, ativa |-> conversa_ativa_id, historico |-> historico,
         consultas |-> consultas, usos |-> usos]

Init ==
    /\ usuario = FALSE
    /\ conversas = <<>> /\ conversa_ativa_id = "ABSENT" /\ historico = <<>>
    /\ blocos = <<>>
    /\ pc = "IDLE" /\ pergunta = <<>> /\ selecionados = <<>> /\ resposta = <<>>
    /\ chamadas = <<>> /\ tela = ""
    /\ consultas \in ConsultasIniciais
    /\ usos = 0 /\ permitidos = 0 /\ agora = 10000 /\ proxId = 0 /\ interacoes = 0
    /\ antes = [conversas |-> <<>>, ativa |-> "ABSENT", historico |-> <<>>,
                consultas |-> <<>>, usos |-> 0]
    /\ ChunkOff /\ BuscaOff /\ LoadOff /\ UploadOff

outros == <<chunkVars, buscaVars, loadVars, uploadVars>>

\* The calls of a turn that come right after an st.* call of the script or
\* an access to st.session_state (st.chat_message of line 536 before the
\* quota check; st.session_state.get of line 551 before the retrieval, which
\* changes nothing; st.chat_message of line 558 or 567 after it): there the
\* runtime stops the run when a widget event has arrived meanwhile and
\* reruns the script with that event.  Between the check and the increment,
\* and between the LLM call and the insert, the script makes no st.* call
\* and does not access st.session_state.
Interrompivel == {"QUOTA_CHECK", "RETRIEVE", "GENERATE"}

\* a user interaction can be handled: the script is at rest, or its run can
\* be stopped for the new event; the user may still act
Ocioso == pc \in (Repouso \cup Interrompivel) /\ interacoes < MaxInteracoes

\* a new interaction reruns the script: the locals of the last turn are gone
FimDoTurno ==
    /\ interacoes' = interacoes + 1
    /\ pergunta' = <<>> /\ selecionados' = <<>> /\ resposta' = <<>>
    /\ chamadas' = <<>>
    /\ antes' = [conversas |-> <<>>, ativa |-> "ABSENT", historico |-> <<>>,
                 consultas |-> <<>>, usos |-> 0]

\* assign the session's conversation state
Aplicar(s) ==
    /\ conversas' = s.conversas
    /\ conversa_ativa_id' = s.ativa
    /\ historico' = s.historico

\* home.py: a successful sign-in sets the user and reruns; the page script
\* then runs inicializar_session_state on an empty session
Login(falha, ini) ==
    /\ ~usuario /\ Ocioso
    /\ LET cs == carregar_conversas(consultas, falha, proxId)
       IN  /\ proxId' = proxId + Len(cs)
           /\ Aplicar(inicializar_session_state(Sessao(cs, "ABSENT", <<>>), ini))
    /\ usuario' = TRUE /\ blocos' = <<>>
    /\ pc' = "IDLE" /\ tela' = ""
    /\ FimDoTurno
    /\ UNCHANGED <<consultas, usos, permitidos, agora, outros>>

\* "Nova Conversa" button: criar_nova_conversa, st.rerun(); a stopped run is
\* followed, like the rerun, by a run of the script from its top
NovaConversa(passos, ini) ==
    /\ usuario /\ Ocioso
    /\ proxId' = proxId + 1
    /\ Aplicar(inicializar_session_state(
                   criar_nova_conversa(Sessao(conversas, conversa_ativa_id, historico),
                                       proxId + 1, agora, passos), ini))
    /\ pc' = "IDLE" /\ tela' = ""
    /\ FimDoTurno
    /\ UNCHANGED <<usuario, blocos>>
    /\ UNCHANGED <<consultas, usos, permitidos, agora, outros>>

\* the writes of the conversation's button: lines 419, 420
EscritasSelecionar == 2

\* the state after the button of conversation k
AposSelecionar(s, k, passos) ==
    Sessao(s.conversas,
           IF passos >= 1 THEN s.conversas[k].id ELSE s.ativa,
           IF passos >= 2 THEN s.conversas[k].mensagens ELSE s.historico)

\* the conversation's button; it is disabled for the active conversation
Selecionar(k, passos) ==
    /\ usuario /\ Ocioso
    /\ k \in DOMAIN conversas
    /\ conversas[k].id # conversa_ativa_id
    /\ Aplicar(inicializar_session_state(
                   AposSelecionar(Sessao(conversas, conversa_ativa_id, historico),
                                  k, passos), EscritasInicializar))
    /\ pc' = "IDLE" /\ tela' = ""
    /\ FimDoTurno
    /\ UNCHANGED <<usuario, blocos>>
    /\ UNCHANGED <<remoteVars, outros>>

\* if conversa["id"] == conversa_ativa_id: clear the pointer and the history
EraAtiva(id, ativa) == id = ativa

\* the writes of the delete button: lines 427, 434, 435
EscritasDeletar == 3

\* the state after the delete button of conversation `id`
AposDeletar(s, id, passos) ==
    LET resto == IF passos >= 1 THEN SelectSeq(s.conversas, LAMBDA c : c.id # id)
                 ELSE s.conversas
    IN  IF EraAtiva(id, s.ativa)
        THEN Sessao(resto,
                    IF passos >= 2 THEN "NONE" ELSE s.ativa,
                    IF passos >= 3 THEN <<>> ELSE s.historico)
        ELSE Sessao(resto, s.ativa, s.historico)

\* the conversation's delete button
Deletar(k, passos) ==
    /\ usuario /\ Ocioso
    /\ k \in DOMAIN conversas
    /\ Aplicar(inicializar_session_state(
                   AposDeletar(Sessao(conversas, conversa_ativa_id, historico),
                               conversas[k].id, passos), EscritasInicializar))
    /\ pc' = "IDLE" /\ tela' = ""
    /\ FimDoTurno
    /\ UNCHANGED <<usuario, blocos>>
    /\ UNCHANGED <<remoteVars, outros>>

\* the file uploader holding a batch: extraction and chunking
Upload(pdfs) ==
    /\ usuario /\ Ocioso
    /\ blocos' = ProcessarManuais(pdfs)
    /\ pc' = "IDLE" /\ tela' = ""
    /\ UNCHANGED <<usuario, conversas, conversa_ativa_id, historico>>
    /\ FimDoTurno
    /\ UNCHANGED <<remoteVars, outros>>

\* "Recarregar Conversas" button
Recarregar(falha, ini) ==
    /\ usuario /\ Ocioso
    /\ LET cs == carregar_conversas(consultas, falha, proxId)
       IN  /\ proxId' = proxId + Len(cs)
           /\ Aplicar(inicializar_session_state(
                          Sessao(cs, conversa_ativa_id, historico), ini))
    /\ pc' = "IDLE" /\ tela' = ""
    /\ FimDoTurno
    /\ UNCHANGED <<usuario, blocos>>
    /\ UNCHANGED <<consultas, usos, permitidos, agora, outros>>

\* "Sair" button: st.session_state.clear()
Logout ==
    /\ usuario /\ Ocioso
    /\ usuario' = FALSE
    /\ Aplicar(Sessao(<<>>, "ABSENT", <<>>))
    /\ blocos' = <<>>
    /\ pc' = "IDLE" /\ tela' = ""
    /\ FimDoTurno
    /\ UNCHANGED <<remoteVars, outros>>

\* "Ver Estatisticas" button: the count is read from the store and shown;
\* the session and the store are as before.  The feedback buttons under an
\* answer (lines 589-595) do the same to the state.
VerEstatisticas ==
    /\ usuario /\ Ocioso
    /\ pc' = "IDLE" /\ tela' = ""
    /\ FimDoTurno
    /\ UNCHANGED <<sessVars, remoteVars, outros>>

\* the steps of renderizar_chat between the question and the quota check:
\* criar_nova_conversa's writes when no conversation is active (cria), the
\* title (lines 529-530), the append to both lists (533-534).  The run can
\* be stopped at the accesses of lines 153-159, 136-138 and 533; the title
\* is written to the conversation's dict and line 534 follows 533 at once.
PassosPerguntar(cria) == (IF cria THEN EscritasCriar ELSE 0) + 2

\* the session after `passos` of these steps on question q
ReceberPergunta(s, q, n, t, passos) ==
    LET cria  == obter_conversa_ativa(s.conversas, s.ativa) = 0
        s1    == IF cria THEN criar_nova_conversa(s, n, t, passos) ELSE s
        resto == passos - (IF cria THEN EscritasCriar ELSE 0)
        k1    == obter_conversa_ativa(s1.conversas, s1.ativa)
        s2    == IF resto >= 1 /\ s1.conversas[k1].nova
                 THEN Sessao([s1.conversas EXCEPT ![k1].titulo = criar_titulo_conversa(q),
                                                  ![k1].nova = FALSE],
                             s1.ativa, s1.historico)
                 ELSE s1
    IN  IF resto >= 2 THEN Anexar(s2, k1, Msg("user", q)) ELSE s2

\* renderizar_chat, `if pergunta:` up to the quota check (lines 521-537);
\* the chat is rendered only when manuals are loaded (main, line 649).  A
\* run that made all the steps goes on to the quota check; a stopped one is
\* followed by a run of the script from its top.
Perguntar(q, espera, passos, ini) ==
    /\ usuario /\ Ocioso
    /\ blocos # <<>>
    /\ LET t    == agora + espera
           s    == Sessao(conversas, conversa_ativa_id, historico)
           cria == obter_conversa_ativa(conversas, conversa_ativa_id) = 0
           fez  == ReceberPergunta(s, q, proxId + 1, t, passos)
       IN  /\ passos <= PassosPerguntar(cria)
           /\ proxId' = IF cria /\ passos >= 1 THEN proxId + 1 ELSE proxId
           /\ agora' = t
           /\ IF passos = PassosPerguntar(cria)
              THEN /\ Aplicar(fez)
                   /\ antes' = Foto
                   /\ pergunta' = q /\ selecionados' = <<>> /\ resposta' = <<>>
                   /\ chamadas' = <<>>
                   /\ interacoes' = interacoes + 1
                   /\ pc' = "QUOTA_CHECK" /\ tela' = ""
              ELSE /\ Aplicar(inicializar_session_state(fez, ini))
                   /\ FimDoTurno
                   /\ pc' = "IDLE" /\ tela' = ""
    /\ UNCHANGED <<usuario, blocos, consultas, usos, permitidos, outros>>

\* variant: the handler never stops on the gate's answer
LimiteAtingidoNunca(r) == FALSE

\* if not verificar_limite_uso(...): st.error(...); st.stop()
LimiteAtingido(r) == ~verificar_limite_uso(r)

\* the quota check and the branch on its answer (lines 540-543); parou: the
\* run is stopped at line 541 or 542, before the quota message is shown
VerificarLimite(r, parou) ==
    /\ pc = "QUOTA_CHECK"
    /\ parou => LimiteAtingido(r)
    /\ chamadas' = Append(chamadas, Chamada("check", r.tipo # "raise"))
    /\ IF LimiteAtingido(r)
       THEN /\ pc' = "REJECTED" /\ permitidos' = permitidos
            /\ tela' = IF parou THEN "" ELSE "quota"
       ELSE pc' = "INCREMENT" /\ tela' = tela /\ permitidos' = permitidos + 1
    /\ UNCHANGED <<sessVars, pergunta, selecionados, resposta, antes>>
    /\ UNCHANGED <<consultas, usos, agora, proxId, interacoes, outros>>

\* variant: the handler goes on to retrieval without issuing the increment
IncrementarUsoOmitido(ok) ==
    /\ pc = "INCREMENT"
    /\ pc' = "RETRIEVE"
    /\ UNCHANGED <<sessVars, pergunta, selecionados, resposta, chamadas, antes, tela>>
    /\ UNCHANGED <<remoteVars, interacoes, outros>>

\* incrementar_uso: whether the call returns or raises (logged and swallowed),
\* the handler goes on
IncrementarUso(ok) ==
    /\ pc = "INCREMENT"
    /\ chamadas' = Append(chamadas, Chamada("increment", ok))
    /\ usos' = usos + 1
    /\ pc' = "RETRIEVE"
    /\ UNCHANGED <<sessVars, pergunta, selecionados, resposta, antes, tela>>
    /\ UNCHANGED <<consultas, permitidos, agora, proxId, interacoes, outros>>

\* variant: the no-match branch is never taken
SemBlocosNunca(bs) == FALSE

\* if not blocos: (no chunk was retrieved)
SemBlocos(bs) == bs = <<>>

\* buscar_blocos_relevantes and the no-match branch (lines 549-564); parou:
\* the run is stopped at line 562, after the notice is shown and before it
\* is appended
Recuperar(parou) ==
    /\ pc = "RETRIEVE"
    /\ LET bs == buscar_blocos_relevantes(pergunta, blocos, TopK)
           k  == obter_conversa_ativa(conversas, conversa_ativa_id)
       IN  /\ parou => SemBlocos(bs)
           /\ selecionados' = bs
           /\ IF SemBlocos(bs)
              THEN /\ IF parou
                      THEN UNCHANGED <<conversas, conversa_ativa_id, historico>>
                      ELSE Aplicar(Anexar(Sessao(conversas, conversa_ativa_id, historico),
                                          k, Msg("assistant", resposta_aviso)))
                   /\ pc' = "DONE" /\ tela' = "no_match"
              ELSE /\ UNCHANGED <<conversas, conversa_ativa_id, historico>>
                   /\ pc' = "GENERATE" /\ tela' = tela
    /\ UNCHANGED <<usuario, blocos, pergunta, resposta, chamadas, antes>>
    /\ UNCHANGED <<remoteVars, interacoes, outros>>

\* gerar_resposta inside the try (line 570); an exception is shown and ends
\* the turn; parou: the run is stopped at line 600, before the error is shown
Gerar(saida, parou) ==
    /\ pc = "GENERATE"
    /\ parou => saida.erro
    /\ chamadas' = Append(chamadas, Chamada("llm", ~saida.erro))
    /\ IF saida.erro
       THEN /\ pc' = "DONE" /\ resposta' = resposta
            /\ tela' = IF parou THEN "" ELSE "erro_gerar"
       ELSE pc' = "PERSIST" /\ tela' = tela
            /\ resposta' = gerar_resposta(saida.texto, selecionados)
    /\ UNCHANGED <<sessVars, pergunta, selecionados, antes>>
    /\ UNCHANGED <<remoteVars, interacoes, outros>>

\* variant: the answer is appended whether or not the row was saved
AposSalvarSempre(s, k, ok, m) == Anexar(s, k, m)

\* the session after salvar_consulta returned ok: the answer is appended
\* only when the row was saved
AposSalvar(s, k, ok, m) == IF ok THEN Anexar(s, k, m) ELSE s

\* where the run can be stopped after salvar_consulta returned: at line 575,
\* before the answer is appended; at line 584 or 597, before the answer or
\* the error is shown
ParadasSalvar == {"nenhuma", "antes_de_anexar", "antes_de_mostrar"}

\* salvar_consulta and the branch on its result (lines 573-597)
Salvar(ok, parada) ==
    /\ pc = "PERSIST"
    /\ (parada = "antes_de_anexar") => ok
    /\ chamadas' = Append(chamadas, Chamada("insert", ok))
    /\ consultas' = IF ok THEN Append(consultas, NovaConsulta(pergunta, resposta, agora))
                    ELSE consultas
    /\ IF parada = "antes_de_anexar"
       THEN UNCHANGED <<conversas, conversa_ativa_id, historico>>
       ELSE Aplicar(AposSalvar(Sessao(conversas, conversa_ativa_id, historico),
                               obter_conversa_ativa(conversas, conversa_ativa_id),
                               ok, Msg("assistant", resposta)))
    /\ tela' = IF parada # "nenhuma" THEN ""
               ELSE IF ok THEN "resposta" ELSE "erro_salvar"
    /\ pc' = "DONE"
    /\ UNCHANGED <<usuario, blocos, pergunta, selecionados, resposta, antes>>
    /\ UNCHANGED <<usos, permitidos, agora, proxId, interacoes, outros>>

Next ==
    \/ \E falha \in BOOLEAN, ini \in 1..EscritasInicializar : Login(falha, ini)
    \/ \E passos \in 1..EscritasCriar, ini \in 1..EscritasInicializar :
          NovaConversa(passos, ini)
    \/ \E k \in DOMAIN conversas, passos \in 1..EscritasSelecionar : Selecionar(k, passos)
    \/ \E k \in DOMAIN conversas, passos \in 1..EscritasDeletar : Deletar(k, passos)
    \/ \E pdfs \in ManuaisSessao : Upload(pdfs)
    \/ \E falha \in BOOLEAN, ini \in 1..EscritasInicializar : Recarregar(falha, ini)
    \/ Logout
    \/ VerEstatisticas
    \/ \E q \in PerguntasSessao, espera \in Esperas,
          passos \in 0..PassosPerguntar(TRUE), ini \in 1..EscritasInicializar :
          Perguntar(q, espera, passos, ini)
    \/ \E r \in RespostasRpc, parou \in BOOLEAN : VerificarLimite(r, parou)
    \/ \E ok \in BOOLEAN : IncrementarUso(ok)
    \/ \E parou \in BOOLEAN : Recuperar(parou)
    \/ \E saida \in SaidasLLM, parou \in BOOLEAN : Gerar(saida, parou)
    \/ \E ok \in BOOLEAN, parada \in ParadasSalvar : Salvar(ok, parada)

Spec == Init /\ [][Next]_vars

(***************************************************************************)
(* Properties of the question turn and of the session.                     *)
(***************************************************************************)
NoTurno == pc \in {"QUOTA_CHECK", "INCREMENT", "RETRIEVE", "GENERATE", "PERSIST",
                   "DONE", "REJECTED"}

\* the names of the calls made so far in the turn
Ops == [k \in DOMAIN chamadas |-> chamadas[k].op]

Feita(op) == \E k \in DOMAIN chamadas : chamadas[k].op = op

RespostaRaise == [tipo |-> "raise", linhas |-> <<>>, valor |-> FALSE]

\* ---- C1 ----
\* in a halted turn only the check was called, and only a new interaction
\* follows it
SoAVerificacao ==
    /\ [](pc = "REJECTED" =>
            /\ Ops = <<"check">>
            /\ usos = antes.usos
            /\ consultas = antes.consultas)
    /\ [][pc = "REJECTED" =>
            \/ UNCHANGED <<pc, chamadas, usos, consultas>>
            \/ (chamadas' = <<>> /\ pc' \in {"IDLE", "QUOTA_CHECK"}
                /\ usos' = usos /\ consultas' = consultas)]_vars

\* C1 as the specification states it: a turn whose quota check answers
\* false halts with the quota message; in the halted turn only the check was
\* called (no increment, no LLM call, no row inserted), and nothing but a new
\* interaction follows.
C1_QuotaGate ==
    /\ [][\A r \in RespostasRpc, parou \in BOOLEAN :
            (VerificarLimite(r, parou) /\ ~verificar_limite_uso(r)) =>
                (pc' = "REJECTED" /\ tela' = "quota")]_vars
    /\ SoAVerificacao

\* C1, amended: a turn whose quota check answers false halts; the quota
\* message is shown unless a widget event stops the run at line 541 or 542,
\* and then nothing is shown.  Either way only the check was called in the
\* halted turn (no increment, no LLM call, no row inserted), and nothing but
\* a new interaction follows.
C1_QuotaGateAmended ==
    /\ [][\A r \in RespostasRpc, parou \in BOOLEAN :
            (VerificarLimite(r, parou) /\ ~verificar_limite_uso(r)) =>
                /\ pc' = "REJECTED"
                /\ tela' = IF parou THEN "" ELSE "quota"]_vars
    /\ [](pc = "REJECTED" => tela \in {"quota", ""})
    /\ SoAVerificacao

\* a turn halted by the gate, the quota message shown
C1_Witness ==
    /\ pc = "REJECTED" /\ tela = "quota"
    /\ chamadas = <<Chamada("check", TRUE)>>
    /\ pergunta # <<>>

\* ---- C2 ----
\* the steps of a turn between two calls
Arestas ==
    { <<"QUOTA_CHECK", "REJECTED">>, <<"QUOTA_CHECK", "INCREMENT">>,
      <<"INCREMENT", "RETRIEVE">>,
      <<"RETRIEVE", "DONE">>, <<"RETRIEVE", "GENERATE">>,
      <<"GENERATE", "DONE">>, <<"GENERATE", "PERSIST">>,
      <<"PERSIST", "DONE">> }

\* C2: a turn moves only along QUOTA_CHECK -> (REJECTED | [increment] ->
\* RETRIEVE -> (no match: DONE | GENERATE -> (failure: DONE | PERSIST ->
\* DONE))), and only a new user interaction leaves it: after its end or, with
\* no further call of the turn, where the runtime stops the run for the new
\* event, never between the check and the increment nor between the LLM call
\* and the insert.  The LLM is called only after the gate allowed and the
\* retriever returned a chunk, a row is inserted only after the LLM call
\* succeeded, and a turn with no match or a failed LLM call ends with no row
\* inserted, whether its message was shown or the run was stopped before.
\* A turn ends with one of its four messages, or with none when the run was
\* stopped after the LLM call.
C2_Pipeline ==
    /\ [][IF interacoes' = interacoes
            THEN pc' = pc \/ <<pc, pc'>> \in Arestas
            ELSE /\ pc \notin {"INCREMENT", "PERSIST"}
                 /\ pc' \in {"IDLE", "QUOTA_CHECK"}
                 /\ chamadas' = <<>>
                 /\ usos' = usos /\ consultas' = consultas]_vars
    /\ [](NoTurno =>
            /\ Feita("llm") =>
                  /\ SubSeq(Ops, 1, 3) = <<"check", "increment", "llm">>
                  /\ selecionados # <<>>
                  /\ selecionados = buscar_blocos_relevantes(pergunta, blocos, TopK)
            /\ Feita("insert") =>
                  /\ Ops = <<"check", "increment", "llm", "insert">>
                  /\ chamadas[3].ok
                  /\ resposta # <<>>
            /\ (consultas # antes.consultas) =>
                  /\ Feita("insert") /\ chamadas[4].ok
                  /\ consultas = Append(antes.consultas,
                                        NovaConsulta(pergunta, resposta, agora))
            /\ (pc = "DONE" /\ tela = "no_match") =>
                  /\ selecionados = <<>> /\ ~Feita("llm") /\ consultas = antes.consultas
            /\ (pc = "DONE" /\ tela = "erro_gerar") =>
                  /\ Ops = <<"check", "increment", "llm">> /\ ~chamadas[3].ok
                  /\ consultas = antes.consultas
            /\ (pc = "DONE") =>
                  tela \in {"no_match", "erro_gerar", "erro_salvar", "resposta", ""}
            /\ (pc = "DONE" /\ selecionados = <<>>) =>
                  /\ Ops = <<"check", "increment">> /\ tela = "no_match"
                  /\ consultas = antes.consultas
            /\ (pc = "DONE" /\ Feita("llm") /\ ~chamadas[3].ok) =>
                  /\ Ops = <<"check", "increment", "llm">>
                  /\ tela \in {"erro_gerar", ""}
                  /\ consultas = antes.consultas
            /\ (pc = "DONE" /\ tela = "") => Feita("llm"))

\* a turn that ran the whole pipeline and inserted its row
C2_Witness ==
    /\ pc = "DONE" /\ tela = "resposta"
    /\ Ops = <<"check", "increment", "llm", "insert">>
    /\ Len(selecionados) = 2
    /\ consultas = Append(antes.consultas, NovaConsulta(pergunta, resposta, agora))

\* ---- C3 ----
\* C3: when the quota RPC raises, verificar_limite_uso returns true and the
\* turn goes on as after an allowed answer: the session is untouched, the
\* next call is the increment and retrieval follows.
C3_FailOpen ==
    /\ [][VerificarLimite(RespostaRaise, FALSE) =>
            /\ verificar_limite_uso(RespostaRaise)
            /\ pc' = "INCREMENT" /\ tela' = tela
            /\ permitidos' = permitidos + 1
            /\ UNCHANGED <<sessVars, consultas, usos>>]_vars
    /\ []((NoTurno /\ chamadas # <<>> /\ ~chamadas[1].ok) =>
            /\ pc \in {"INCREMENT", "RETRIEVE", "GENERATE", "PERSIST", "DONE"}
            /\ (pc # "INCREMENT") =>
                  /\ Len(chamadas) >= 2 /\ chamadas[2].op = "increment"
                  /\ usos = antes.usos + 1
            /\ (pc \in {"GENERATE", "PERSIST", "DONE"}) =>
                  selecionados = buscar_blocos_relevantes(pergunta, blocos, TopK))

\* a turn whose quota check raised and that went on to retrieve chunks
C3_Witness ==
    /\ pc = "GENERATE"
    /\ Len(chamadas) = 2 /\ ~chamadas[1].ok /\ chamadas[1].op = "check"
    /\ chamadas[2].op = "increment"
    /\ selecionados # <<>>

\* ---- C4 ----
\* C4: a turn that ends REJECTED leaves the conversation list, every
\* conversation's title and messages, the active pointer and the displayed
\* history as they were when the question was submitted.
C4_DenialNoSideEffects ==
    (pc = "REJECTED") =>
        /\ conversas = antes.conversas
        /\ conversa_ativa_id = antes.ativa
        /\ historico = antes.historico

\* ---- C9 ----
\* C9 as the specification states it: when salvar_consulta fails, the error
\* is shown, the handler ends normally, and the conversation list, the active
\* pointer, the messages and the displayed history are what they were before
\* the call; no row is added.
C9_PersistFailure ==
    [][\A parada \in ParadasSalvar :
          Salvar(FALSE, parada) =>
              /\ pc' = "DONE" /\ tela' = "erro_salvar"
              /\ UNCHANGED <<conversas, conversa_ativa_id, historico, consultas>>]_vars

\* C9, amended: when salvar_consulta fails, the turn ends; the error is shown
\* unless a widget event stops the run at line 597, and then nothing is
\* shown.  Either way the conversation list, the active pointer, the messages
\* and the displayed history are what they were before the call, and no row
\* is added.
C9_PersistFailureAmended ==
    [][\A parada \in ParadasSalvar :
          Salvar(FALSE, parada) =>
              /\ pc' = "DONE"
              /\ tela' = IF parada = "nenhuma" THEN "erro_salvar" ELSE ""
              /\ UNCHANGED <<conversas, conversa_ativa_id, historico, consultas>>]_vars

\* a turn whose insert raised
C9_Witness ==
    /\ pc = "DONE" /\ tela = "erro_salvar"
    /\ Len(chamadas) = 4 /\ chamadas[4] = Chamada("insert", FALSE)
    /\ historico # <<>> /\ Last(historico).role = "user"

\* ---- C10 ----
\* s without its k-th element
SemIndice(s, k) == SubSeq(s, 1, k - 1) \o SubSeq(s, k + 1, Len(s))

\* C10: deleting conversation k removes that conversation and nothing else
\* from the list; when it was the active one the pointer becomes None and
\* the history empty, otherwise both are unchanged; the store is not called.
C10_DeleteLocal ==
    [][\A k \in DOMAIN conversas : \A passos \in 1..EscritasDeletar :
          Deletar(k, passos) =>
              /\ conversas' = SemIndice(conversas, k)
              /\ (conversas[k].id = conversa_ativa_id) =>
                     (conversa_ativa_id' = "NONE" /\ historico' = <<>>)
              /\ (conversas[k].id # conversa_ativa_id) =>
                     UNCHANGED <<conversa_ativa_id, historico>>
              /\ chamadas' = <<>>
              /\ UNCHANGED <<consultas, usos, permitidos>>]_vars

\* ---- C11 ----
\* the first 50 characters of q
PrimeirosCinquenta(q) == SubSeq(q, 1, IF Len(q) < TituloMax THEN Len(q) ELSE TituloMax)

\* the first 50 characters of q, followed by "..." when q is longer
TituloDe(q) ==
    IF Len(q) > TituloMax THEN PrimeirosCinquenta(q) \o <<".", ".", ".">>
    ELSE PrimeirosCinquenta(q)

\* what receiving question q does to the session, tit being the title an
\* untitled conversation gets: with no active conversation a new one is put
\* at the front of the list and made active; the question is the last message
\* of the active conversation and of the history; nothing else changes
PerguntaRecebida(q, tit) ==
    LET k0 == obter_conversa_ativa(conversas, conversa_ativa_id)
        m  == [role |-> "user", content |-> q]
    IN  IF k0 = 0
        THEN /\ Len(conversas') = Len(conversas) + 1
             /\ Tail(conversas') = conversas
             /\ \A j \in DOMAIN conversas : conversas[j].id # conversas'[1].id
             /\ conversa_ativa_id' = conversas'[1].id
             /\ conversas'[1].mensagens = <<m>>
             /\ historico' = <<m>>
             /\ conversas'[1].titulo = tit
             /\ ~conversas'[1].nova
        ELSE /\ conversa_ativa_id' = conversa_ativa_id
             /\ historico' = Append(historico, m)
             /\ Len(conversas') = Len(conversas)
             /\ \A j \in DOMAIN conversas : (j # k0) => conversas'[j] = conversas[j]
             /\ conversas'[k0].id = conversas[k0].id
             /\ conversas'[k0].timestamp = conversas[k0].timestamp
             /\ conversas'[k0].mensagens = Append(conversas[k0].mensagens, m)
             /\ conversas'[k0].titulo = IF conversas[k0].nova THEN tit
                                        ELSE conversas[k0].titulo
             /\ ~conversas'[k0].nova

\* a step that shows an assistant message appends that one message to the
\* history and to the active conversation, and changes nothing else
RespostaAnexada ==
    LET k == obter_conversa_ativa(conversas, conversa_ativa_id)
    IN  (historico' # historico) =>
            /\ k # 0
            /\ Len(historico') = Len(historico) + 1
            /\ SubSeq(historico', 1, Len(historico)) = historico
            /\ historico'[Len(historico')].role = "assistant"
            /\ conversas' = [conversas EXCEPT
                                ![k].mensagens = Append(@, historico'[Len(historico')])]
            /\ conversa_ativa_id' = conversa_ativa_id

\* what a run stopped before the question is appended has done, tit being
\* the title an untitled conversation gets: a prefix of the writes that
\* prepend a new conversation, make it active, clear the history and set
\* the title; the question is in neither list
PerguntaInterrompida(q, tit) ==
    LET k0 == obter_conversa_ativa(conversas, conversa_ativa_id)
    IN  IF k0 # 0
        THEN /\ UNCHANGED <<conversa_ativa_id, historico>>
             /\ \/ conversas' = conversas
                \/ /\ conversas[k0].nova
                   /\ conversas' = [conversas EXCEPT ![k0].titulo = tit,
                                                     ![k0].nova = FALSE]
        ELSE \/ UNCHANGED <<conversas, conversa_ativa_id, historico>>
             \/ /\ Len(conversas') = Len(conversas) + 1
                /\ Tail(conversas') = conversas
                /\ \A j \in DOMAIN conversas : conversas[j].id # conversas'[1].id
                /\ conversas'[1].mensagens = <<>>
                /\ \/ /\ UNCHANGED <<conversa_ativa_id, historico>>
                      /\ conversas'[1].nova
                   \/ /\ conversa_ativa_id' = conversas'[1].id
                      /\ historico' \in {historico, <<>>}
                      /\ conversas'[1].nova
                   \/ /\ conversa_ativa_id' = conversas'[1].id
                      /\ historico' = <<>>
                      /\ conversas'[1].titulo = tit
                      /\ ~conversas'[1].nova

    /\ antes.conversas # <<>>
    /\ conversas = <<conversas[1]>> \o antes.conversas
    /\ conversa_ativa_id = conversas[1].id
    /\ Len(conversas[1].titulo) = TituloMax + 3
    /\ historico = <<Msg("user", pergunta)>>
    /\ conversas[1].mensagens = historico

\* ---- C12 ----
\* C12: the active-conversation pointer is unset, None, or the id of a
\* conversation of the in-memory list.
C12_PointerValid ==
    \/ conversa_ativa_id \in {"ABSENT", "NONE"}
    \/ \E k \in DOMAIN conversas : conversas[k].id = conversa_ativa_id

\* ---- C13 ----
\* C13: whenever the active pointer is the id of a conversation of the list,
\* the displayed history is that conversation's message list, element for
\* element.
C13_HistoryMirrors ==
    \A k \in DOMAIN conversas :
        (conversas[k].id = conversa_ativa_id) =>
            /\ Len(historico) = Len(conversas[k].mensagens)
            /\ \A j \in DOMAIN historico : historico[j] = conversas[k].mensagens[j]

\* ---- C14 ----
\* the rows inserted since the session started: those that were not in the
\* store at the start
Persistidas ==
    Cardinality({ k \in DOMAIN consultas :
                     \A c \in ConsultasIniciais : consultas[k] \notin Range(c) })

\* the increment calls issued so far in the turn
Incrementos == Cardinality({ k \in DOMAIN chamadas : chamadas[k].op = "increment" })

\* C14: in a turn the gate allowed, the increment is issued exactly once,
\* right after the check and before retrieval, however the turn ends; the
\* number of increment calls is the number of allowed turns (the turn about
\* to issue its increment aside) and is never less than the number of rows
\* persisted.
C14_IncrementOnce ==
    /\ [][\A r \in RespostasRpc :
            (VerificarLimite(r, FALSE) /\ verificar_limite_uso(r)) =>
                (pc' = "INCREMENT" /\ usos' = usos /\ selecionados' = <<>>)]_vars
    /\ [][(pc = "INCREMENT" /\ pc' # pc) =>
            /\ pc' = "RETRIEVE"
            /\ usos' = usos + 1
            /\ \E ok \in BOOLEAN : chamadas' = Append(chamadas, Chamada("increment", ok))
            /\ selecionados' = <<>>]_vars
    /\ [][(usos' # usos) => (pc = "INCREMENT" /\ usos' = usos + 1)]_vars
    /\ [](NoTurno =>
            /\ (pc \in {"QUOTA_CHECK", "INCREMENT", "REJECTED"}) =>
                  (Incrementos = 0 /\ usos = antes.usos)
            /\ (pc \in {"RETRIEVE", "GENERATE", "PERSIST", "DONE"}) =>
                  /\ Incrementos = 1
                  /\ SubSeq(Ops, 1, 2) = <<"check", "increment">>
                  /\ usos = antes.usos + 1)
    /\ [](usos = IF pc = "INCREMENT" THEN permitidos - 1 ELSE permitidos)
    /\ [](usos >= Persistidas)

\* two allowed turns: the first persisted its row, the second ended on a
\* failed LLM call; two increments, one row
C14_Witness ==
    /\ pc = "DONE" /\ tela = "erro_gerar"
    /\ usos = 2 /\ permitidos = 2
    /\ Persistidas = 1
    /\ Incrementos = 1

=============================================================================
